---- MODULE Spec2Model ----
(***************************************************************************)
(* Model of the ESP32 drone controller sketch                              *)
(* ControlNotebook/Individual_Note_Books/Edwin/4MotorBluetoothANDServo.c   *)
(* (and the registry callbacks shared with Resources/XboxBluetooth/        *)
(* TestCode.c): the joystick-to-pulse mapper, the controller slot          *)
(* registry, and the dispatch loop driving four motors and one servo.      *)
(*                                                                         *)
(* C "int" and "long" are 32 bits wide on the ESP32.  Signed overflow is   *)
(* undefined behaviour; every operator below that can overflow returns     *)
(* the SET of results a build can produce (two's-complement wrap-around,   *)
(* or the saturated value a wider intermediate would give after the final  *)
(* clamp).  All arithmetic is arranged so that no intermediate leaves the  *)
(* 32-bit range.                                                           *)
(***************************************************************************)
EXTENDS Integers, Sequences, FiniteSets, TLC

VARIABLES
  controllers,   \* ControllerPtr controllers[BP32_MAX_GAMEPADS]
  connected,     \* ctl->isConnected() of every device
  motor1, motor2, motor3, motor4,   \* last writeMicroseconds() of each motor
  armServo,      \* last write() of the arm servo
  pc, i,         \* position of loop(): "update", "for" (slot i), "delay"
  leftY, rightY, buttons,   \* locals of the last updateMotorsFromController
  lastCtl,       \* controller whose state produced the last actuator writes
  bothPressed,   \* some controller dispatched in this tick reported Y and A together
  tickData,      \* data BP32.update() latched for a controller that a later slot holds too
  calls,         \* registry callbacks delivered since setup(), with the slot logged
  joyVal1, joyVal2, pulse1, pulse2, mapped   \* mapper harness

vars == <<controllers, connected, motor1, motor2, motor3, motor4, armServo,
          pc, i, leftY, rightY, buttons, lastCtl, bothPressed, tickData, calls,
          joyVal1, joyVal2, pulse1, pulse2, mapped>>

\* ---------------------------------------------------------------- bounds
\* Dense range of axis values fed to the mapper: covers the nominal domain
\* -512..512 and a margin beyond it.
MaxAxis == 520
\* Capacity of the registry (a build-time setting of the Bluepad32 library).
BP32_MAX_GAMEPADS == 2
\* Registry callbacks recorded by the registry specification beyond the
\* BP32_MAX_GAMEPADS needed to fill the registry.
ExtraCalls == 2

\* ------------------------------------------------------------- constants
MIN_PULSE == 1020
MID_PULSE == 1492
MAX_PULSE == 2000
SERVO_UP == 170
SERVO_DOWN == 10
DEADZONE == 40
AXIS_MIN == -512
AXIS_MAX == 512

INT_MAX == 2147483647
INT_MIN == (-2147483647) - 1
LIMB == 65536
BUTTON_A == 1
BUTTON_Y == 8

\* ------------------------------------------------- 32-bit C arithmetic
\* a - b in 32-bit signed arithmetic, two's-complement wrap-around.
WrapSub(a, b) ==
  IF b < 0 /\ a > INT_MAX + b THEN ((a - INT_MAX) - (b + 1)) + INT_MIN
  ELSE IF b > 0 /\ a < INT_MIN + b THEN ((a - INT_MIN) - (b - 1)) + INT_MAX
  ELSE a - b

SubOverflows(a, b) ==
  (b < 0 /\ a > INT_MAX + b) \/ (b > 0 /\ a < INT_MIN + b)

\* Results of the C expression a - b.
SubOutcomes(a, b) ==
  IF SubOverflows(a, b)
  THEN {WrapSub(a, b), IF b < 0 THEN INT_MAX ELSE INT_MIN}
  ELSE {a - b}

\* a * b (b > 0, b < LIMB) modulo 2^32 as a signed value, by 16-bit limbs.
WrapMul(a, b) ==
  LET lo   == a % LIMB
      hi   == (a \div LIMB) % LIMB
      plo  == (lo * b) % LIMB
      cy   == (lo * b) \div LIMB
      phi  == (hi * b + cy) % LIMB
  IN  IF phi >= LIMB \div 2 THEN (phi - LIMB) * LIMB + plo
      ELSE phi * LIMB + plo

MulOverflows(a, b) ==
  a > INT_MAX \div b \/ a < -(INT_MAX \div b)

\* Results of the C expression a * b (b > 0).
MulOutcomes(a, b) ==
  IF MulOverflows(a, b)
  THEN {WrapMul(a, b), IF a > 0 THEN INT_MAX ELSE INT_MIN}
  ELSE {a * b}

\* C integer division (truncation toward zero), b > 0.
TruncDiv(a, b) ==
  LET q == a \div b
  IN  IF a < 0 /\ q * b # a THEN q + 1 ELSE q

\* Results of -x.
NegOutcomes(x) ==
  IF x = INT_MIN THEN {INT_MIN, INT_MAX} ELSE {-x}

\* Results of abs(x); abs(INT_MIN) is undefined.
abs(x) ==
  IF x = INT_MIN THEN {INT_MIN, INT_MAX}
  ELSE IF x < 0 THEN {-x} ELSE {x}

\* Arduino map(): (x - in_min) * (out_max - out_min) / (in_max - in_min) + out_min
map(x, in_min, in_max, out_min, out_max) ==
  LET run  == in_max - in_min
      rise == out_max - out_min
  IN  { TruncDiv(prod, run) + out_min :
          prod \in UNION { MulOutcomes(delta, rise) :
                             delta \in SubOutcomes(x, in_min) } }

\* Mutant of constrain: the upper limit is not applied.
constrain_LowerOnly(amt, low, high) ==
  IF amt < low THEN low ELSE amt

\* Arduino constrain() macro.
constrain(amt, low, high) ==
  IF amt < low THEN low ELSE IF amt > high THEN high ELSE amt

\* Mutant of the mapper: the deadzone test is missing.
mapJoystick_NoDeadzone(joyVal) ==
  { constrain(pulse, MIN_PULSE, MAX_PULSE) :
      pulse \in map(joyVal, AXIS_MIN, AXIS_MAX, MIN_PULSE, MAX_PULSE) }

\* The set of values mapJoystickToPulseBidirectional(joyVal) can return.
mapJoystickToPulseBidirectional(joyVal) ==
  UNION { IF a < DEADZONE
          THEN {MID_PULSE}
          ELSE { constrain(pulse, MIN_PULSE, MAX_PULSE) :
                   pulse \in map(joyVal, AXIS_MIN, AXIS_MAX, MIN_PULSE, MAX_PULSE) }
        : a \in abs(joyVal) }


\* ------------------------------------------------------- mapper harness
\* First axis values at which the product in map() leaves the 32-bit range.
OverflowAbove == (INT_MAX \div (MAX_PULSE - MIN_PULSE)) + AXIS_MIN + 1
OverflowBelow == (-(INT_MAX \div (MAX_PULSE - MIN_PULSE))) + AXIS_MIN - 1

ExtremeAxis ==
  {INT_MIN, INT_MIN + 1, OverflowBelow, OverflowBelow + 1, -600,
   600, OverflowAbove - 1, OverflowAbove, INT_MAX}

AxisInputs == ((-MaxAxis)..MaxAxis) \cup ExtremeAxis

nullptr == 0
NoData == [axisY |-> 0, axisRY |-> 0, buttons |-> -1]
\* Device identities a caller can pass to the registry callbacks: one more
\* than the registry can hold.
Devices == 1..(BP32_MAX_GAMEPADS + 1)
\* The controller objects the Bluepad32 library owns and hands to the
\* callbacks of the running sketch.
Gamepads == 1..BP32_MAX_GAMEPADS
Slots == 0..(BP32_MAX_GAMEPADS - 1)

\* Mutant of setup(): the motors start at full reverse instead of neutral.
ProgramInit_FullReverse ==
  /\ controllers = [s \in Slots |-> nullptr]
  /\ connected = [d \in Devices |-> FALSE]
  /\ motor1 = MIN_PULSE /\ motor2 = MIN_PULSE
  /\ motor3 = MIN_PULSE /\ motor4 = MIN_PULSE
  /\ armServo = SERVO_DOWN
  /\ pc = "update" /\ i = 0
  /\ leftY = 0 /\ rightY = 0 /\ buttons = 0
  /\ lastCtl = nullptr
  /\ bothPressed = FALSE
  /\ tickData = [d \in Devices |-> NoData]
  /\ calls = << >>

ProgramInit ==
  /\ controllers = [s \in Slots |-> nullptr]
  /\ connected = [d \in Devices |-> FALSE]
  /\ motor1 = MID_PULSE /\ motor2 = MID_PULSE
  /\ motor3 = MID_PULSE /\ motor4 = MID_PULSE
  /\ armServo = SERVO_DOWN
  /\ pc = "update" /\ i = 0
  /\ leftY = 0 /\ rightY = 0 /\ buttons = 0
  /\ lastCtl = nullptr
  /\ bothPressed = FALSE
  /\ tickData = [d \in Devices |-> NoData]
  /\ calls = << >>

HarnessIdle ==
  /\ joyVal1 = 0 /\ joyVal2 = 0 /\ pulse1 = 0 /\ pulse2 = 0 /\ mapped = FALSE

programVars == <<controllers, connected, motor1, motor2, motor3, motor4,
                 armServo, pc, i, leftY, rightY, buttons, lastCtl,
                 bothPressed, tickData, calls>>
harnessVars == <<joyVal1, joyVal2, pulse1, pulse2, mapped>>

MapInit ==
  /\ ProgramInit
  /\ joyVal1 \in AxisInputs
  /\ joyVal2 \in AxisInputs
  /\ joyVal1 <= joyVal2
  /\ pulse1 = 0 /\ pulse2 = 0 /\ mapped = FALSE

\* Two calls of the mapper on the two drawn axis values.
MapPair ==
  /\ ~mapped
  /\ pulse1' \in mapJoystickToPulseBidirectional(joyVal1)
  /\ pulse2' \in mapJoystickToPulseBidirectional(joyVal2)
  /\ mapped' = TRUE
  /\ UNCHANGED <<joyVal1, joyVal2>>
  /\ UNCHANGED programVars

MapNext == MapPair
SpecMap == MapInit /\ [][MapNext]_vars

\* ------------------------------------------------------------ registry
\* for-loop of onConnectedController from slot s on: the registry after the
\* call and the slot index it logs (-1: nothing logged).
RECURSIVE ConnectScan(_, _, _)
ConnectScan(regs, ctl, s) ==
  IF s >= BP32_MAX_GAMEPADS THEN [controllers |-> regs, index |-> -1]
  ELSE IF regs[s] = nullptr
       THEN [controllers |-> [regs EXCEPT ![s] = ctl], index |-> s]
       ELSE ConnectScan(regs, ctl, s + 1)

\* Mutant of onConnectedController: the scan starts at slot 1.
onConnectedController_FromOne(regs, ctl) == ConnectScan(regs, ctl, 1)

\* Mutant of onConnectedController: a full registry gives up its last slot.
onConnectedController_Evict(regs, ctl) ==
  LET r == ConnectScan(regs, ctl, 0)
  IN  IF r.index = -1
      THEN [controllers |-> [regs EXCEPT ![BP32_MAX_GAMEPADS - 1] = ctl],
            index |-> BP32_MAX_GAMEPADS - 1]
      ELSE r

onConnectedController(regs, ctl) == ConnectScan(regs, ctl, 0)

\* for-loop of onDisconnectedController from slot s on.
RECURSIVE DisconnectScan(_, _, _)
DisconnectScan(regs, ctl, s) ==
  IF s >= BP32_MAX_GAMEPADS THEN [controllers |-> regs, index |-> -1]
  ELSE IF regs[s] = ctl
       THEN [controllers |-> [regs EXCEPT ![s] = nullptr], index |-> s]
       ELSE DisconnectScan(regs, ctl, s + 1)

\* Mutant of onDisconnectedController: the break is missing, every slot
\* holding the device is cleared.
onDisconnectedController_NoBreak(regs, ctl) ==
  [controllers |-> [s \in Slots |-> IF regs[s] = ctl THEN nullptr ELSE regs[s]],
   index |-> DisconnectScan(regs, ctl, 0).index]

onDisconnectedController(regs, ctl) == DisconnectScan(regs, ctl, 0)

actuatorVars == <<motor1, motor2, motor3, motor4, armServo>>
localVars == <<leftY, rightY, buttons, lastCtl, bothPressed, tickData>>
loopVars == <<pc, i>>

MaxCalls == BP32_MAX_GAMEPADS + ExtraCalls

\* Registry specification: the callbacks alone, every call recorded.
DeliverConnect(ctl) ==
  LET r == onConnectedController(controllers, ctl)
  IN  /\ Len(calls) < MaxCalls
      /\ controllers' = r.controllers
      /\ calls' = Append(calls, [op |-> "connect", ctl |-> ctl, index |-> r.index])
      /\ UNCHANGED <<connected, actuatorVars, localVars, loopVars, harnessVars>>

DeliverDisconnect(ctl) ==
  LET r == onDisconnectedController(controllers, ctl)
  IN  /\ Len(calls) < MaxCalls
      /\ controllers' = r.controllers
      /\ calls' = Append(calls, [op |-> "disconnect", ctl |-> ctl, index |-> r.index])
      /\ UNCHANGED <<connected, actuatorVars, localVars, loopVars, harnessVars>>

RegistryInit == ProgramInit /\ HarnessIdle
RegistryNext ==
  \/ \E ctl \in Devices : DeliverConnect(ctl)
  \/ \E ctl \in Devices : DeliverDisconnect(ctl)
SpecRegistry == RegistryInit /\ [][RegistryNext]_vars

\* ------------------------------------------------------- dispatch loop
\* Raw axis readings a tick can see: the domain edges, the deadzone, values
\* beyond the domain, and the readings at which the 32-bit arithmetic of
\* the inversion and of map() overflows.
TickAxis == {INT_MIN, -OverflowAbove, -600, AXIS_MIN, 0, 100, AXIS_MAX, -OverflowBelow}
RightAxis == {-OverflowAbove, -600, AXIS_MAX}
ButtonInputs == {0, BUTTON_A, BUTTON_Y, BUTTON_A + BUTTON_Y}

\* Controller reports (axisY(), axisRY(), buttons()) a dispatch can read:
\* every axis reading on either stick, and every button mask with both
\* sticks deflected.
PadReports ==
  { [axisY |-> a, axisRY |-> 0, buttons |-> 0] : a \in TickAxis } \cup
  { [axisY |-> 0, axisRY |-> a, buttons |-> 0] : a \in RightAxis } \cup
  { [axisY |-> 100, axisRY |-> -600, buttons |-> b] : b \in ButtonInputs }

\* buttons & mask, for a one-bit mask.
ButtonSet(b, mask) == (b \div mask) % 2 = 1

\* Mutant of the servo ifs: BUTTON_A tested before BUTTON_Y.
ServoAfter_YLast(servo, b) ==
  LET afterA == IF ButtonSet(b, BUTTON_A) THEN SERVO_DOWN ELSE servo
  IN  IF ButtonSet(b, BUTTON_Y) THEN SERVO_UP ELSE afterA

\* Mutant of the servo ifs: the servo falls back to DOWN when BUTTON_Y is
\* not pressed.
ServoAfter_Momentary(servo, b) ==
  IF ButtonSet(b, BUTTON_A) THEN SERVO_DOWN
  ELSE IF ButtonSet(b, BUTTON_Y) THEN SERVO_UP ELSE SERVO_DOWN

\* The two servo ifs of updateMotorsFromController, in source order.
ServoAfter(servo, b) ==
  LET afterY == IF ButtonSet(b, BUTTON_Y) THEN SERVO_UP ELSE servo
  IN  IF ButtonSet(b, BUTTON_A) THEN SERVO_DOWN ELSE afterY

\* Mutant of updateMotorsFromController: motor2 is written the right pulse.
updateMotorsFromController_Motor2Right(ctl, rep) ==
  IF ~connected[ctl]
  THEN UNCHANGED <<actuatorVars, leftY, rightY, buttons, lastCtl, bothPressed>>
  ELSE /\ leftY' = rep.axisY
       /\ rightY' = rep.axisRY
       /\ \E nl \in NegOutcomes(rep.axisY), nr \in NegOutcomes(rep.axisRY) :
            \E leftPulse \in mapJoystickToPulseBidirectional(nl),
               rightPulse \in mapJoystickToPulseBidirectional(nr) :
              /\ motor1' = leftPulse
              /\ motor2' = rightPulse
              /\ motor3' = rightPulse
              /\ motor4' = rightPulse
       /\ buttons' = rep.buttons
       /\ armServo' = ServoAfter(armServo, rep.buttons)
       /\ lastCtl' = ctl
       /\ bothPressed' = (bothPressed \/ (ButtonSet(rep.buttons, BUTTON_Y)
                                           /\ ButtonSet(rep.buttons, BUTTON_A)))

\* updateMotorsFromController(ctl) when the controller reports rep.
updateMotorsFromController(ctl, rep) ==
  IF ~connected[ctl]
  THEN UNCHANGED <<actuatorVars, leftY, rightY, buttons, lastCtl, bothPressed>>
  ELSE /\ leftY' = rep.axisY
       /\ rightY' = rep.axisRY
       /\ \E nl \in NegOutcomes(rep.axisY), nr \in NegOutcomes(rep.axisRY) :
            \E leftPulse \in mapJoystickToPulseBidirectional(nl),
               rightPulse \in mapJoystickToPulseBidirectional(nr) :
              /\ motor1' = leftPulse
              /\ motor2' = leftPulse
              /\ motor3' = rightPulse
              /\ motor4' = rightPulse
       /\ buttons' = rep.buttons
       /\ armServo' = ServoAfter(armServo, rep.buttons)
       /\ lastCtl' = ctl
       /\ bothPressed' = (bothPressed \/ (ButtonSet(rep.buttons, BUTTON_Y)
                                           /\ ButtonSet(rep.buttons, BUTTON_A)))

\* The controller data does not change between two BP32.update() calls: a
\* controller dispatched a second time in one pass reports what it reported
\* the first time.
Readable(ctl) ==
  IF tickData[ctl] # NoData THEN {tickData[ctl]} ELSE PadReports

\* Mutant of the dispatch test: the connectivity flag is read inverted.
Dispatched_FlagInverted(regs, conn, s) == regs[s] # nullptr /\ ~conn[regs[s]]

\* Test of loop() that decides whether slot s is dispatched.
Dispatched(regs, conn, s) == regs[s] # nullptr /\ conn[regs[s]]

\* Callbacks and connectivity changes are delivered from inside
\* BP32.update(), i.e. between two passes of the for loop.
Connect(ctl) ==
  /\ pc = "update"
  /\ controllers' = onConnectedController(controllers, ctl).controllers
  /\ UNCHANGED <<connected, actuatorVars, localVars, loopVars, calls, harnessVars>>

\* Mutant of the disconnect callback: it also stops the motors.
Disconnect_StopMotors(ctl) ==
  /\ pc = "update"
  /\ controllers' = onDisconnectedController(controllers, ctl).controllers
  /\ motor1' = MID_PULSE /\ motor2' = MID_PULSE
  /\ motor3' = MID_PULSE /\ motor4' = MID_PULSE
  /\ UNCHANGED <<connected, armServo, localVars, loopVars, calls, harnessVars>>

Disconnect(ctl) ==
  /\ pc = "update"
  /\ controllers' = onDisconnectedController(controllers, ctl).controllers
  /\ UNCHANGED <<connected, actuatorVars, localVars, loopVars, calls, harnessVars>>

SetConnected(ctl) ==
  /\ pc = "update"
  /\ connected' = [connected EXCEPT ![ctl] = ~connected[ctl]]
  /\ UNCHANGED <<controllers, actuatorVars, localVars, loopVars, calls, harnessVars>>

\* Mutant of the poll: a poll without new data drives the motors to neutral.
Update_NeutralOnIdle(newData) ==
  /\ pc = "update"
  /\ pc' = IF newData THEN "for" ELSE "delay"
  /\ i' = 0
  /\ bothPressed' = FALSE
  /\ IF newData
     THEN UNCHANGED <<motor1, motor2, motor3, motor4>>
     ELSE /\ motor1' = MID_PULSE /\ motor2' = MID_PULSE
          /\ motor3' = MID_PULSE /\ motor4' = MID_PULSE
  /\ UNCHANGED <<controllers, connected, armServo, leftY, rightY, buttons,
                 lastCtl, tickData, calls, harnessVars>>

\* if (BP32.update())
Update(newData) ==
  /\ pc = "update"
  /\ pc' = IF newData THEN "for" ELSE "delay"
  /\ i' = 0
  /\ bothPressed' = FALSE
  /\ UNCHANGED <<controllers, connected, actuatorVars, leftY, rightY, buttons,
                 lastCtl, tickData, calls, harnessVars>>

\* Mutant of the for loop: a slot that is not dispatched does not advance i.
ForStep_SpinOnSkip ==
  /\ pc = "for"
  /\ IF Dispatched(controllers, connected, i)
     THEN /\ \E rep \in Readable(controllers[i]) :
               /\ updateMotorsFromController(controllers[i], rep)
               /\ tickData' = [tickData EXCEPT ![controllers[i]] =
                                 IF \E s \in Slots : s > i /\ controllers[s] = controllers[i]
                                 THEN rep ELSE NoData]
          /\ i' = i + 1
          /\ pc' = IF i + 1 < BP32_MAX_GAMEPADS THEN "for" ELSE "delay"
     ELSE UNCHANGED <<actuatorVars, localVars, loopVars>>
  /\ UNCHANGED <<controllers, connected, calls, harnessVars>>

\* Mutant of the for loop: a slot that is not dispatched returns the motors
\* to neutral.
ForStep_NeutralOnSkip ==
  /\ pc = "for"
  /\ IF Dispatched(controllers, connected, i)
     THEN \E rep \in Readable(controllers[i]) :
            /\ updateMotorsFromController(controllers[i], rep)
            /\ tickData' = [tickData EXCEPT ![controllers[i]] =
                              IF \E s \in Slots : s > i /\ controllers[s] = controllers[i]
                              THEN rep ELSE NoData]
     ELSE /\ motor1' = MID_PULSE /\ motor2' = MID_PULSE
          /\ motor3' = MID_PULSE /\ motor4' = MID_PULSE
          /\ UNCHANGED <<armServo, localVars>>
  /\ i' = i + 1
  /\ pc' = IF i + 1 < BP32_MAX_GAMEPADS THEN "for" ELSE "delay"
  /\ UNCHANGED <<controllers, connected, calls, harnessVars>>

\* Mutant of the for loop: the loop is left after the first dispatch.
ForStep_BreakAfterFirst ==
  /\ pc = "for"
  /\ IF Dispatched(controllers, connected, i)
     THEN /\ \E rep \in Readable(controllers[i]) :
               /\ updateMotorsFromController(controllers[i], rep)
               /\ tickData' = [tickData EXCEPT ![controllers[i]] = NoData]
          /\ i' = BP32_MAX_GAMEPADS
          /\ pc' = "delay"
     ELSE /\ UNCHANGED <<actuatorVars, localVars>>
          /\ i' = i + 1
          /\ pc' = IF i + 1 < BP32_MAX_GAMEPADS THEN "for" ELSE "delay"
  /\ UNCHANGED <<controllers, connected, calls, harnessVars>>

\* One iteration of the for loop of loop().
ForStep ==
  /\ pc = "for"
  /\ IF Dispatched(controllers, connected, i)
     THEN \E rep \in Readable(controllers[i]) :
            /\ updateMotorsFromController(controllers[i], rep)
            /\ tickData' = [tickData EXCEPT ![controllers[i]] =
                              IF \E s \in Slots : s > i /\ controllers[s] = controllers[i]
                              THEN rep ELSE NoData]
     ELSE UNCHANGED <<actuatorVars, localVars>>
  /\ i' = i + 1
  /\ pc' = IF i + 1 < BP32_MAX_GAMEPADS THEN "for" ELSE "delay"
  /\ UNCHANGED <<controllers, connected, calls, harnessVars>>

\* delay(50) and return from loop().
Delay ==
  /\ pc = "delay"
  /\ pc' = "update"
  /\ i' = 0
  /\ UNCHANGED <<controllers, connected, actuatorVars, localVars, calls, harnessVars>>

Init == ProgramInit /\ HarnessIdle
Next ==
  \/ \E ctl \in Gamepads : Connect(ctl)
  \/ \E ctl \in Gamepads : Disconnect(ctl)
  \/ \E ctl \in Gamepads : SetConnected(ctl)
  \/ \E newData \in BOOLEAN : Update(newData)
  \/ ForStep
  \/ Delay
Spec == Init /\ [][Next]_vars

\* ---------------------------------------------------------------- claims
Min(S) == CHOOSE m \in S : \A n \in S : m <= n
InPulseRange(p) == MIN_PULSE <= p /\ p <= MAX_PULSE
InDeadzone(v) == -DEADZONE < v /\ v < DEADZONE

\* C1: every axis value of magnitude below the deadzone (40) maps to
\* MID_PULSE.
C1_DeadzoneIsNeutral ==
  mapped =>
    /\ (InDeadzone(joyVal1) => pulse1 = MID_PULSE)
    /\ (InDeadzone(joyVal2) => pulse2 = MID_PULSE)

C1_Witness ==
  /\ mapped
  /\ joyVal1 = -39 /\ pulse1 = MID_PULSE
  /\ joyVal2 = 39 /\ pulse2 = MID_PULSE

\* C2: for every axis value, the nominal domain or not, the mapper returns
\* a value, and the value lies in [MIN_PULSE, MAX_PULSE].
C2_AlwaysInRange ==
  /\ mapJoystickToPulseBidirectional(joyVal1) # {}
  /\ mapJoystickToPulseBidirectional(joyVal2) # {}
  /\ mapped => InPulseRange(pulse1) /\ InPulseRange(pulse2)

C2_Witness ==
  /\ mapped
  /\ joyVal1 = OverflowBelow /\ InPulseRange(pulse1)
  /\ joyVal2 = INT_MAX /\ InPulseRange(pulse2)

\* C3: for axis values v1 < v2 of the same sign, both of magnitude at or
\* above the deadzone, map(v1) <= map(v2) and both outputs are in range.
SameSideOutsideDeadzone(a, b) ==
  \/ (a >= DEADZONE /\ b >= DEADZONE)
  \/ (a <= -DEADZONE /\ b <= -DEADZONE)

C3_Monotone ==
  (mapped /\ joyVal1 < joyVal2 /\ SameSideOutsideDeadzone(joyVal1, joyVal2)) =>
    /\ pulse1 <= pulse2
    /\ InPulseRange(pulse1) /\ InPulseRange(pulse2)

\* C4: a raw axis reading of -600 commands its motor group to exactly
\* MAX_PULSE; any raw reading <= -512 yields MAX_PULSE and any raw reading
\* >= 512 yields MIN_PULSE.
GroupCommand(raw, ma, mb) ==
  /\ (raw <= AXIS_MIN => ma = MAX_PULSE /\ mb = MAX_PULSE)
  /\ (raw >= AXIS_MAX => ma = MIN_PULSE /\ mb = MIN_PULSE)

C4_BeyondDomainClamps ==
  lastCtl # nullptr =>
    /\ GroupCommand(leftY, motor1, motor2)
    /\ GroupCommand(rightY, motor3, motor4)

\* C5: after any sequence of connect / disconnect callbacks no two occupied
\* slots reference the same device.
C5_NoSharedDevice ==
  \A s \in Slots, t \in Slots :
    (s # t /\ controllers[s] # nullptr) => controllers[s] # controllers[t]

\* C6: from the empty registry, connecting distinct devices fills the slots
\* in call order; the call after the registry is full changes no slot, logs
\* nothing and leaves its device unregistered.
OnlyDistinctConnects ==
  /\ \A k \in 1..Len(calls) : calls[k].op = "connect"
  /\ \A k \in 1..Len(calls), l \in 1..Len(calls) :
       k # l => calls[k].ctl # calls[l].ctl

C6_OverCapacityDropped ==
  (OnlyDistinctConnects /\ Len(calls) <= BP32_MAX_GAMEPADS + 1) =>
    /\ \A s \in Slots :
         controllers[s] = IF s + 1 <= Len(calls) THEN calls[s + 1].ctl ELSE nullptr
    /\ \A k \in 1..Len(calls) :
         calls[k].index = IF k <= BP32_MAX_GAMEPADS THEN k - 1 ELSE -1
    /\ Cardinality({s \in Slots : controllers[s] # nullptr})
         = IF Len(calls) <= BP32_MAX_GAMEPADS THEN Len(calls) ELSE BP32_MAX_GAMEPADS

C6_Witness ==
  /\ OnlyDistinctConnects
  /\ Len(calls) = BP32_MAX_GAMEPADS + 1
  /\ calls[BP32_MAX_GAMEPADS + 1].index = -1
  /\ \A s \in Slots : controllers[s] # calls[BP32_MAX_GAMEPADS + 1].ctl

\* C7: a connect places its device in the lowest-index empty slot and
\* changes no other slot; connect(A), disconnect(A), connect(B) in a row
\* puts B in the slot A held.
IsCall(op) == Len(calls') = Len(calls) + 1 /\ calls'[Len(calls')].op = op

ConnectPlacesLowestFree ==
  IsCall("connect") =>
    LET c    == calls'[Len(calls')]
        free == {s \in Slots : controllers[s] = nullptr}
    IN  IF free = {}
        THEN c.index = -1 /\ controllers' = controllers
        ELSE /\ c.index = Min(free)
             /\ controllers' = [controllers EXCEPT ![Min(free)] = c.ctl]

\* Slots the device holds before call k, counted from the logged calls.
HeldBefore(ctl, k) ==
  Cardinality({j \in 1..(k - 1) :
     calls[j].ctl = ctl /\ calls[j].op = "connect" /\ calls[j].index # -1})
  - Cardinality({j \in 1..(k - 1) :
     calls[j].ctl = ctl /\ calls[j].op = "disconnect" /\ calls[j].index # -1})

ReconnectPattern(k) ==
  /\ k + 2 <= Len(calls)
  /\ calls[k].op = "connect"
  /\ calls[k + 1].op = "disconnect"
  /\ calls[k + 1].ctl = calls[k].ctl
  /\ calls[k + 2].op = "connect"

ReconnectReusesSlot ==
  \A k \in 1..Len(calls) :
    ReconnectPattern(k) =>
      /\ calls[k + 2].index = calls[k + 1].index
      /\ (HeldBefore(calls[k].ctl, k) = 0 => calls[k + 1].index = calls[k].index)
      /\ (k + 2 = Len(calls) /\ calls[k + 2].index # -1
            => controllers[calls[k + 2].index] = calls[k + 2].ctl)

C7_FirstFreeSlotReused ==
  /\ []ReconnectReusesSlot
  /\ [][ConnectPlacesLowestFree]_vars

C7_Witness ==
  /\ Len(calls) = 4
  /\ ReconnectPattern(2)
  /\ calls[2].ctl # calls[4].ctl
  /\ calls[2].index = 1 /\ calls[4].index = 1
  /\ controllers[1] = calls[4].ctl
  /\ controllers[0] = calls[1].ctl

\* C8: a disconnect empties the lowest-index slot holding exactly that
\* device and changes no other slot; when no slot holds it, the registry is
\* unchanged.
DisconnectClearsOneSlot ==
  IsCall("disconnect") =>
    LET c       == calls'[Len(calls')]
        holders == {s \in Slots : controllers[s] = c.ctl}
    IN  IF holders = {}
        THEN c.index = -1 /\ controllers' = controllers
        ELSE /\ c.index = Min(holders)
             /\ controllers' = [controllers EXCEPT ![Min(holders)] = nullptr]

C8_DisconnectFrame == [][DisconnectClearsOneSlot]_vars

\* A device registered twice loses only its lower slot.
C8_Witness ==
  /\ Len(calls) = 3
  /\ calls[3].op = "disconnect" /\ calls[3].index = 0
  /\ controllers[0] = nullptr
  /\ controllers[1] = calls[3].ctl

\* C9 (as stated): a tick in which BUTTON_Y and BUTTON_A were pressed
\* together ends with the servo DOWN.
C9_BothPressedEndsDown ==
  (pc = "delay" /\ bothPressed) => armServo = SERVO_DOWN

\* C9 (amended): once a controller reporting BUTTON_Y and BUTTON_A together
\* has been dispatched the servo is DOWN, and it stays DOWN until another
\* controller is dispatched; the tick ends DOWN when that controller is the
\* last one dispatched in it.
BothButtons(b) == ButtonSet(b, BUTTON_Y) /\ ButtonSet(b, BUTTON_A)

C9_LastDispatchBothIsDown ==
  (lastCtl # nullptr /\ BothButtons(buttons)) => armServo = SERVO_DOWN

C9_Witness ==
  /\ pc = "delay"
  /\ bothPressed
  /\ buttons = BUTTON_A + BUTTON_Y
  /\ armServo = SERVO_DOWN

\* C10: a slot that is empty, or whose controller reports isConnected()
\* false, is skipped by the loop: actuators and the values read stay as they
\* are and the loop moves on; a slot that is occupied and connected (again)
\* is dispatched.
SlotSkipped ==
  /\ UNCHANGED <<motor1, motor2, motor3, motor4, armServo>>
  /\ UNCHANGED <<leftY, rightY, buttons, lastCtl>>
  /\ i' = i + 1
  /\ pc' \in {"for", "delay"}

SlotProcessed ==
  /\ lastCtl' = controllers[i]
  /\ \E rep \in PadReports :
       /\ leftY' = rep.axisY /\ rightY' = rep.axisRY /\ buttons' = rep.buttons
  /\ motor1' = motor2' /\ motor3' = motor4'
  /\ i' = i + 1
  /\ pc' \in {"for", "delay"}

SkipsDisconnected ==
  pc = "for" =>
    IF controllers[i] = nullptr THEN SlotSkipped
    ELSE IF ~connected[controllers[i]] THEN SlotSkipped
    ELSE SlotProcessed

C10_DisconnectedSkipped == [][SkipsDisconnected]_vars

\* The controller that last drove the actuators is still referenced by slot
\* 0 but no longer connected, and the loop has just passed slot 0.
C10_Witness ==
  /\ pc = "for" /\ i = 1
  /\ controllers[0] # nullptr
  /\ controllers[0] = lastCtl
  /\ ~connected[lastCtl]
  /\ motor1 # MID_PULSE

\* C11: a tick whose poll reports no new state writes no motor pulse and no
\* servo position and leaves the registry unchanged; it goes from the poll
\* to the delay and from the delay to the next poll.
IdlePoll == pc = "update" /\ pc' = "delay"
IdleDelay == pc = "delay" /\ i = 0

IdleTickWritesNothing ==
  /\ (IdlePoll \/ IdleDelay) =>
       /\ UNCHANGED <<motor1, motor2, motor3, motor4, armServo>>
       /\ UNCHANGED <<controllers, connected>>
       /\ UNCHANGED <<leftY, rightY, buttons, lastCtl>>
  /\ IdleDelay => pc' = "update"

C11_IdleTickOnlyDelays == [][IdleTickWritesNothing]_vars

\* An idle tick at its delay, with the motors and the servo still as an
\* earlier dispatch left them.
C11_Witness ==
  /\ pc = "delay" /\ i = 0
  /\ controllers[0] # nullptr
  /\ motor3 = MAX_PULSE
  /\ armServo = SERVO_UP

\* C12: at every tick boundary the two motors of a group hold the same
\* pulse: motor1 = motor2 and motor3 = motor4.
C12_GroupsIdentical ==
  pc = "update" => (motor1 = motor2 /\ motor3 = motor4)

C12_Witness ==
  /\ pc = "update"
  /\ lastCtl # nullptr
  /\ motor1 = motor2 /\ motor3 = motor4
  /\ motor1 # motor3
  /\ motor1 # MID_PULSE

\* C13: after setup() and before the first tick all four motors hold
\* MID_PULSE, the servo is DOWN and every slot is empty; the actuators keep
\* these values until a controller is dispatched for the first time.
ActuatorsNeutral ==
  /\ motor1 = MID_PULSE /\ motor2 = MID_PULSE
  /\ motor3 = MID_PULSE /\ motor4 = MID_PULSE
  /\ armServo = SERVO_DOWN

AfterSetup ==
  /\ ActuatorsNeutral
  /\ \A s \in Slots : controllers[s] = nullptr
  /\ pc = "update"

C13_SafeStart ==
  /\ AfterSetup
  /\ [](lastCtl = nullptr => ActuatorsNeutral)

\* Callbacks have filled the registry and the loop has polled, but nothing
\* was dispatched yet: the actuators are as setup() left them.
C13_Witness ==
  /\ lastCtl = nullptr
  /\ ActuatorsNeutral
  /\ pc = "delay"
  /\ \A s \in Slots : controllers[s] # nullptr

\* C14: the callbacks leave the four motor pulses and the servo position
\* unchanged, only a step of the for loop writes them, and no step of
\* loop() changes the registry.
OnlyLoopWritesActuators ==
  /\ controllers' # controllers =>
       /\ UNCHANGED <<motor1, motor2, motor3, motor4, armServo>>
       /\ UNCHANGED <<pc, i>>
  /\ <<motor1, motor2, motor3, motor4, armServo>>'
       # <<motor1, motor2, motor3, motor4, armServo>> => pc = "for"
  /\ <<pc, i>>' # <<pc, i>> => controllers' = controllers

C14_ActuatorsOwnedByLoop == [][OnlyLoopWritesActuators]_vars

\* The callbacks have emptied the registry again; the actuators are still
\* as the last dispatch left them.
C14_Witness ==
  /\ \A s \in Slots : controllers[s] = nullptr
  /\ lastCtl # nullptr
  /\ motor1 # MID_PULSE
  /\ armServo = SERVO_UP

\* The Arduino runtime calls loop() again and again, and every statement of
\* loop() returns: a step of loop() that can be taken is eventually taken.
LoopStep ==
  \/ \E newData \in BOOLEAN : Update(newData)
  \/ ForStep
  \/ Delay

SpecLive == Init /\ [][Next]_vars /\ WF_vars(LoopStep)

\* C15: every tick, with or without new data and whatever the registry
\* holds, reaches the delay, and the next poll follows the delay: from every
\* state the loop is at its delay again and at its poll again, forever;
\* between two polls there is exactly one delay.
OneDelayPerPoll ==
  /\ (pc' = "update" /\ pc # "update") => pc = "delay"
  /\ (pc = "delay" /\ pc' # "delay") => pc' = "update"
  /\ (pc = "update" /\ pc' # "update") => pc' \in {"for", "delay"}
  /\ (pc = "for" /\ pc' # "for") => pc' = "delay"

C15_LoopAlwaysYields ==
  /\ []<>(pc = "delay")
  /\ []<>(pc = "update")
  /\ [][OneDelayPerPoll]_vars

\* A tick that dispatched a controller has reached its delay.
C15_Witness ==
  /\ pc = "delay"
  /\ i = BP32_MAX_GAMEPADS
  /\ lastCtl # nullptr
  /\ \E s \in Slots : controllers[s] = nullptr

\* C16: in every reachable state each of the four motor pulses lies in
\* [MIN_PULSE, MAX_PULSE] and the servo is at SERVO_UP or at SERVO_DOWN.
C16_ActuatorsInRange ==
  /\ InPulseRange(motor1) /\ InPulseRange(motor2)
  /\ InPulseRange(motor3) /\ InPulseRange(motor4)
  /\ armServo \in {SERVO_UP, SERVO_DOWN}

\* A reading beyond the domain on the right stick and BUTTON_Y pressed.
C16_Witness ==
  /\ lastCtl # nullptr
  /\ rightY = -600 /\ motor3 = MAX_PULSE /\ motor4 = MAX_PULSE
  /\ buttons = BUTTON_Y /\ armServo = SERVO_UP

\* C17: the mapper returns MID_PULSE exactly for the axis values of
\* magnitude below 40; for v >= 40 the result is above MID_PULSE and for
\* v <= -40 it is below MID_PULSE.
DirectionKept(v, p) ==
  /\ (p = MID_PULSE) <=> InDeadzone(v)
  /\ v >= DEADZONE => p > MID_PULSE
  /\ v <= -DEADZONE => p < MID_PULSE

C17_DirectionPreserved ==
  mapped => (DirectionKept(joyVal1, pulse1) /\ DirectionKept(joyVal2, pulse2))

\* C18: while no slot is both occupied and connected, no step changes a
\* motor pulse or the servo position: the motors keep the last commanded
\* pulse.
NoneDispatchable ==
  \A s \in Slots : controllers[s] = nullptr \/ ~connected[controllers[s]]

C18_NoReturnToNeutral ==
  [][NoneDispatchable => UNCHANGED <<motor1, motor2, motor3, motor4, armServo>>]_vars

\* A whole pass of the for loop found nothing to dispatch and the motors are
\* still driven as the last controller left them.
C18_Witness ==
  /\ pc = "delay" /\ i = BP32_MAX_GAMEPADS
  /\ NoneDispatchable
  /\ lastCtl # nullptr
  /\ motor1 = MAX_PULSE

\* C19: the occupied and connected slots are dispatched in ascending index
\* and the last write wins: once the loop has passed slot i - 1, the
\* actuators are as the controller of the highest dispatched slot below i
\* commanded them: the motor pulses are the mapping of its inverted axes and
\* the servo follows its buttons, whatever a lower slot commanded.
Max(S) == CHOOSE m \in S : \A n \in S : m >= n

PulsesFor(raw) ==
  UNION { mapJoystickToPulseBidirectional(n) : n \in NegOutcomes(raw) }

PassedSlots ==
  {s \in Slots : s < i /\ controllers[s] # nullptr /\ connected[controllers[s]]}

C19_LastWriteWins ==
  (pc \in {"for", "delay"} /\ PassedSlots # {}) =>
    /\ lastCtl = controllers[Max(PassedSlots)]
    /\ motor1 \in PulsesFor(leftY) /\ motor2 = motor1
    /\ motor3 \in PulsesFor(rightY) /\ motor4 = motor3
    /\ ButtonSet(buttons, BUTTON_A) => armServo = SERVO_DOWN
    /\ (ButtonSet(buttons, BUTTON_Y) /\ ~ButtonSet(buttons, BUTTON_A))
         => armServo = SERVO_UP

\* Two different connected controllers: the lower slot pressed Y and A
\* (DOWN), the higher slot pressed Y alone, the tick ends UP.
C19_Witness ==
  /\ pc = "delay" /\ i = BP32_MAX_GAMEPADS
  /\ Cardinality({controllers[s] : s \in PassedSlots}) >= 2
  /\ bothPressed
  /\ buttons = BUTTON_Y
  /\ armServo = SERVO_UP

\* C20: a dispatch with neither BUTTON_Y nor BUTTON_A pressed leaves the
\* servo where it is, with BUTTON_Y alone it goes UP, with BUTTON_A it goes
\* DOWN; a step that dispatches nothing does not move the servo.
ServoLatched ==
  IF pc = "for" /\ controllers[i] # nullptr /\ connected[controllers[i]]
  THEN /\ buttons' \in ButtonInputs
       /\ (~ButtonSet(buttons', BUTTON_Y) /\ ~ButtonSet(buttons', BUTTON_A))
            => armServo' = armServo
       /\ (ButtonSet(buttons', BUTTON_Y) /\ ~ButtonSet(buttons', BUTTON_A))
            => armServo' = SERVO_UP
       /\ ButtonSet(buttons', BUTTON_A) => armServo' = SERVO_DOWN
  ELSE armServo' = armServo

C20_ServoLatched == [][ServoLatched]_vars

\* The servo is still UP after a dispatch with no button pressed.
C20_Witness ==
  /\ lastCtl # nullptr
  /\ buttons = 0
  /\ leftY = -600
  /\ armServo = SERVO_UP
====
